---- MODULE Spec2Model ----
(***************************************************************************)
(* Model of bin/ci-deploy.py: the commit matcher (hash_files,              *)
(* find_commits), the run cache synchronizer (workflow_runs), the run      *)
(* locator (find_workflow_run), the artifact resolver (artifact_url) and   *)
(* the deploy sequence that chains them.                                   *)
(*                                                                         *)
(* A Python dict is modelled as a sequence of records with distinct ids,   *)
(* in insertion order (dict iteration order).                              *)
(***************************************************************************)
EXTENDS Integers, Sequences, FiniteSets, TLC

\* ------------------------------------------------------------- bounds
MaxCommits == 3
MaxRuns == 2
PageSize == 1
MaxInvocations == 2
MaxArtifacts == 1

\* ---------------------------------------------------- static tables
ASSETS_FILES ==
  <<".github/workflows/assets.yml", "public", "ui", "package.json", "yarn.lock">>

SERVER_FILES ==
  <<".github/workflows/server.yml", "app", "conf", "modules", "project",
    "translation", "build.sbt", "lila", "conf/application.conf.default",
    ".sbtopts.default">>

\* The workflow urls, without their common prefix
\* https://api.github.com/repos/ornicar/lila/actions/workflows/.
ASSETS_BUILD_URL == "assets.yml/runs"

SERVER_BUILD_URL == "server.yml/runs"

asset_profile ==
  [files |-> ASSETS_FILES, workflow_url |-> ASSETS_BUILD_URL,
   artifact_name |-> "lila-assets"]

server_profile ==
  [files |-> SERVER_FILES, workflow_url |-> SERVER_BUILD_URL,
   artifact_name |-> "lila-server"]

PROFILES ==
  [n \in {"khiaw-assets", "khiaw-server", "ocean-server", "ocean-assets",
          "maple-assets"} |->
     IF n \in {"khiaw-server", "ocean-server"} THEN server_profile
                                               ELSE asset_profile]

\* One profile of each shape is exercised; the others differ only in ssh,
\* deploy_dir and post, which none of the modelled functions read.
ProfileNames == {"khiaw-server", "ocean-assets"}

Urls == {ASSETS_BUILD_URL, SERVER_BUILD_URL}

\* The error messages of the DeployError raise sites.
ErrMissingFile == "Commit is missing a required file."
ErrNoRun == "Did not find successful matching workflow run."
ErrNoArtifact == "Did not find artifact."

\* ------------------------------------------------------- repository
Commits == 1..MaxCommits

RangeOf(s) == {s[i] : i \in 1..Len(s)}

AllPaths == RangeOf(ASSETS_FILES) \cup RangeOf(SERVER_FILES)

\* Three trees: TreeA and TreeB carry the same hashes with two tracked paths
\* of each profile swapped; TreeC lacks one tracked path of each profile.
TreeA == [p \in AllPaths |-> IF p \in {"conf", "ui"} THEN "h2" ELSE "h1"]

TreeB ==
  [p \in AllPaths |->
     IF p \in {"conf", "ui"} THEN "h1"
     ELSE IF p \in {"app", "public"} THEN "h2" ELSE "h1"]

TreeC == [p \in AllPaths \ {"build.sbt", "yarn.lock"} |-> TreeA[p]]

\* The tree objects of the histories, by id; a commit holds its tree's id.
TreeObjects == [t \in {"A", "B", "C"} |->
                  IF t = "A" THEN TreeA ELSE IF t = "B" THEN TreeB ELSE TreeC]

Trees == DOMAIN TreeObjects

\* commit.tree
TreeOf(r, c) == TreeObjects[r.tree[c]]

RECURSIVE SetToSeq(_)
SetToSeq(S) ==
  IF S = {} THEN <<>>
  ELSE LET m == CHOOSE x \in S : \A y \in S : y <= x
       IN <<m>> \o SetToSeq(S \ {m})

\* Histories over the commits cs: commit c's parents are older commits (at
\* most two), so the graph is acyclic; any commit may be the checked-out head.
Repos(cs) ==
  {[parents |-> [c \in cs |-> SetToSeq(ps[c])], tree |-> tr, head |-> h] :
     ps \in {f \in [cs -> SUBSET cs] :
               \A c \in cs :
                 /\ f[c] \subseteq 1..(c - 1)
                 /\ Cardinality(f[c]) <= 2},
     tr \in [cs -> Trees],
     h \in cs}

\* A linear history n -> ... -> 2 -> 1 with head n, whose oldest commit
\* lacks a tracked file and whose second commit differs from the later ones.
Chain(n) ==
  [parents |-> [c \in 1..n |-> IF c = 1 THEN <<>> ELSE <<c - 1>>],
   tree |-> [c \in 1..n |-> IF c = 1 THEN "C" ELSE IF c = 2 THEN "B" ELSE "A"],
   head |-> n]

\* The repository the whole-deploy specifications run on.
ChainRepo == Chain(2)

VARIABLES
  repo,            \* git.Repo: parents, tree per commit, head
  pc,              \* position in main/deploy
  profile,         \* name of the selected profile
  commit,          \* target commit (head, or --commit)
  wanted_hash,     \* deploy: hash tuple of the target commit
  stack,           \* find_commits: commits whose call is pending, next first
  yielded,         \* find_commits: ids yielded so far, in order
  visited,         \* find_commits: the commits a call was made on, in call order
  wanted_commits,  \* deploy: set(find_commits(...))
  feed,            \* remote: per workflow url, the runs newest first
  file,            \* workflow_runs.pickle: the persisted dict
  data,            \* workflow_runs: the in-memory dict
  page,            \* workflow_runs: number of the page url points at
  synced,          \* workflow_runs: a known completed run was met
  new,             \* workflow_runs: count of added/updated runs
  exit,            \* workflow_runs: how the fetch loop was left
  prior,           \* history: the dict as loaded by this invocation
  merged,          \* history: numbers of the pages merged in full
  seen,            \* history: run ids assigned into data by this sync
  saved,           \* history: this invocation's finally block has run
  lastSync,        \* history: the previous sync's profile; was it cut short
  found,           \* deploy: result of find_workflow_run
  artifact,        \* deploy: result of artifact_url
  error,           \* message of the DeployError raised, or "none"
  invocations      \* number of invocations of the tool so far

repoVars == <<repo>>

argVars == <<profile, commit>>

matcherVars == <<wanted_hash, stack, yielded, visited, wanted_commits>>

remoteVars == <<feed>>

syncVars == <<data, page, synced, new, exit, prior, merged, seen>>

tailVars == <<found, artifact, error>>

vars ==
  <<repo, pc, profile, commit, wanted_hash, stack, yielded, visited,
    wanted_commits, feed, file, data, page, synced, new, exit, prior, merged,
    seen, saved, lastSync, found, artifact, error, invocations>>

\* ------------------------------------------------------ commit matcher
KeyError == [ok |-> FALSE, val |-> <<>>]

\* hash_files: the tuple of tree[path].hexsha in path order; tree[path]
\* raises KeyError for a path the tree lacks.
hash_files(tree, files) ==
  IF \A i \in 1..Len(files) : files[i] \in DOMAIN tree
  THEN [ok |-> TRUE, val |-> [i \in 1..Len(files) |-> tree[files[i]]]]
  ELSE KeyError

\* Mutant of Matches: the hashes are compared as a set, not in path order.
MatchesUnordered(r, c, files, wanted) ==
  LET h == hash_files(TreeOf(r, c), files)
  IN h.ok /\ RangeOf(h.val) = RangeOf(wanted)

\* The test at the top of find_commits: TRUE when the call yields.
Matches(r, c, files, wanted) ==
  LET h == hash_files(TreeOf(r, c), files)
  IN h.ok /\ h.val = wanted

NoHash == <<>>

\* Python's None where a run record is expected.
NoRun ==
  [id |-> 0, status |-> "none", conclusion |-> "none", head_commit |-> 0,
   _workflow_url |-> "none"]

NoSync == [profile |-> "none", cut |-> FALSE]

\* Local state of a process that has not started.
FreshLocals ==
  /\ wanted_hash = NoHash
  /\ stack = <<>>
  /\ yielded = <<>>
  /\ visited = <<>>
  /\ wanted_commits = {}
  /\ data = <<>>
  /\ page = 1
  /\ synced = FALSE
  /\ new = 0
  /\ exit = "none"
  /\ prior = <<>>
  /\ merged = {}
  /\ seen = {}
  /\ saved = FALSE
  /\ found = NoRun
  /\ artifact = "none"
  /\ error = "none"

ResetLocals ==
  /\ wanted_hash' = NoHash
  /\ stack' = <<>>
  /\ yielded' = <<>>
  /\ visited' = <<>>
  /\ wanted_commits' = {}
  /\ data' = <<>>
  /\ page' = 1
  /\ synced' = FALSE
  /\ new' = 0
  /\ exit' = "none"
  /\ prior' = <<>>
  /\ merged' = {}
  /\ seen' = {}
  /\ saved' = FALSE
  /\ found' = NoRun
  /\ artifact' = "none"
  /\ error' = "none"

\* main: parse the arguments and pick the target commit: the head, or the
\* commit named by --commit.
Invoke ==
  /\ pc = "idle"
  /\ invocations < MaxInvocations
  /\ invocations' = invocations + 1
  /\ \E n \in ProfileNames, c \in DOMAIN repo.tree :
       /\ profile' = n
       /\ commit' = c
  /\ pc' = "hash"
  /\ UNCHANGED <<repoVars, matcherVars, remoteVars, file, syncVars, saved,
                 lastSync, tailVars>>

\* deploy: wanted_hash = hash_files(commit.tree, files), DeployError on
\* KeyError; then the outermost find_commits call is made on repo.head.commit.
HashWanted ==
  /\ pc = "hash"
  /\ LET h == hash_files(TreeOf(repo, commit), PROFILES[profile].files)
     IN IF h.ok
        THEN /\ wanted_hash' = h.val
             /\ stack' = <<repo.head>>
             /\ pc' = "find"
             /\ error' = error
        ELSE /\ error' = ErrMissingFile
             /\ pc' = "failed"
             /\ UNCHANGED <<wanted_hash, stack>>
  /\ UNCHANGED <<repoVars, argVars, yielded, visited, wanted_commits,
                 remoteVars, file, syncVars, saved, lastSync, found, artifact>>
  /\ UNCHANGED invocations

\* Mutant of Visit: a commit that fails the test is skipped, not pruned.
VisitSkipping ==
  /\ pc = "find"
  /\ stack # <<>>
  /\ LET c == Head(stack)
     IN /\ visited' = Append(visited, c)
        /\ stack' = repo.parents[c] \o Tail(stack)
        /\ yielded' =
             IF Matches(repo, c, PROFILES[profile].files, wanted_hash)
             THEN Append(yielded, c) ELSE yielded
  /\ UNCHANGED <<repoVars, pc, argVars, wanted_hash, wanted_commits,
                 remoteVars, file, syncVars, saved, lastSync, tailVars>>
  /\ UNCHANGED invocations

\* One call of find_commits: return on a differing tuple or a KeyError,
\* else yield the id and recurse into the parents in order.
Visit ==
  /\ pc = "find"
  /\ stack # <<>>
  /\ LET c == Head(stack)
     IN /\ visited' = Append(visited, c)
        /\ IF Matches(repo, c, PROFILES[profile].files, wanted_hash)
           THEN /\ yielded' = Append(yielded, c)
                /\ stack' = repo.parents[c] \o Tail(stack)
           ELSE /\ yielded' = yielded
                /\ stack' = Tail(stack)
  /\ UNCHANGED <<repoVars, pc, argVars, wanted_hash, wanted_commits,
                 remoteVars, file, syncVars, saved, lastSync, tailVars>>
  /\ UNCHANGED invocations

\* deploy: the generator is exhausted; wanted_commits = set(...).
FindDone ==
  /\ pc = "find"
  /\ stack = <<>>
  /\ wanted_commits' = RangeOf(yielded)
  /\ pc' = "load"
  /\ UNCHANGED <<repoVars, argVars, wanted_hash, stack, yielded, visited,
                 remoteVars, file, syncVars, saved, lastSync, tailVars>>
  /\ UNCHANGED invocations

\* ------------------------------------------------- run cache synchronizer
Keys(d) == {d[i].id : i \in 1..Len(d)}

Lookup(d, id) == d[CHOOSE i \in 1..Len(d) : d[i].id = id]

\* Mutant of Put: an existing key is deleted and inserted anew, so it moves
\* to the end of the iteration order.
PutLast(d, run) ==
  Append(SelectSeq(d, LAMBDA e : e.id # run.id), run)

\* data[run["id"]] = run: an existing key keeps its place in the iteration
\* order, a new key goes last.
Put(d, run) ==
  IF run.id \in Keys(d)
  THEN [i \in 1..Len(d) |-> IF d[i].id = run.id THEN run ELSE d[i]]
  ELSE Append(d, run)

\* run["_workflow_url"] = profile["workflow_url"]
Tagged(run, url) ==
  [id |-> run.id, status |-> run.status, conclusion |-> run.conclusion,
   head_commit |-> run.head_commit, _workflow_url |-> url]

Min(a, b) == IF a <= b THEN a ELSE b

\* The workflow_runs array of page p of a feed, and whether the response
\* carries a "next" link.
PageOf(f, p) == SubSeq(f, (p - 1) * PageSize + 1, Min(p * PageSize, Len(f)))

HasNext(f, p) == p * PageSize < Len(f)

\* The body of the for loop over a page, run on its first k runs.
RECURSIVE MergeRuns(_, _, _)
MergeRuns(st, runs, url) ==
  IF runs = <<>> THEN st
  ELSE LET run == Head(runs)
           known == /\ run.id \in Keys(st.data)
                    /\ Lookup(st.data, run.id).status = "completed"
       IN MergeRuns([data |-> Put(st.data, Tagged(run, url)),
                     synced |-> st.synced \/ known,
                     new |-> IF known THEN st.new ELSE st.new + 1],
                    Tail(runs), url)

Url == PROFILES[profile].workflow_url

\* Mutant of Load: the file is opened for writing and the prior dict is not
\* read.
LoadNothing ==
  /\ pc = "load"
  /\ data' = <<>>
  /\ prior' = file
  /\ new' = 0
  /\ synced' = FALSE
  /\ page' = 1
  /\ pc' = "fetch"
  /\ UNCHANGED <<repoVars, argVars, matcherVars, remoteVars, file, exit,
                 merged, seen, saved, lastSync, tailVars>>
  /\ UNCHANGED invocations

\* open(...,"ab+"), seek(0), pickle.load: the persisted dict, or {} when the
\* file is empty; then the initialisation in front of the loop.
Load ==
  /\ pc = "load"
  /\ data' = file
  /\ prior' = file
  /\ new' = 0
  /\ synced' = FALSE
  /\ page' = 1
  /\ pc' = "fetch"
  /\ UNCHANGED <<repoVars, argVars, matcherVars, remoteVars, file, exit,
                 merged, seen, saved, lastSync, tailVars>>
  /\ UNCHANGED invocations

\* One iteration of the while loop with a 200 response whose runs are all
\* merged; the loop is then left for want of a next link or because synced
\* is set, or goes on with the next page.
FetchMerge ==
  /\ pc = "fetch"
  /\ LET runs == PageOf(feed[Url], page)
         st == MergeRuns([data |-> data, synced |-> synced, new |-> new],
                         runs, Url)
     IN /\ data' = st.data
        /\ synced' = st.synced
        /\ new' = st.new
        /\ merged' = merged \cup {page}
        /\ seen' = seen \cup Keys(runs)
        /\ IF ~HasNext(feed[Url], page)
           THEN /\ exit' = "nonext"
                /\ page' = page
                /\ pc' = "finally"
           ELSE /\ page' = page + 1
                /\ exit' = IF st.synced THEN "synced" ELSE exit
                /\ pc' = IF st.synced THEN "finally" ELSE "fetch"
  /\ UNCHANGED <<repoVars, argVars, matcherVars, remoteVars, file, prior,
                 saved, lastSync, tailVars>>
  /\ UNCHANGED invocations

\* Mutant of FetchNon200: the failed sync gives up what it held in memory.
FetchNon200Discards ==
  /\ pc = "fetch"
  /\ exit' = "http"
  /\ data' = <<>>
  /\ pc' = "finally"
  /\ UNCHANGED <<repoVars, argVars, matcherVars, remoteVars, file, page,
                 synced, new, prior, merged, seen, saved, lastSync, tailVars>>
  /\ UNCHANGED invocations

\* res.status_code != 200: break.
FetchNon200 ==
  /\ pc = "fetch"
  /\ exit' = "http"
  /\ pc' = "finally"
  /\ UNCHANGED <<repoVars, argVars, matcherVars, remoteVars, file, data, page,
                 synced, new, prior, merged, seen, saved, lastSync, tailVars>>
  /\ UNCHANGED invocations

\* session.get or res.json() raises: nothing of the page is merged.
FetchRaises ==
  /\ pc = "fetch"
  /\ exit' = "exception"
  /\ pc' = "finally"
  /\ UNCHANGED <<repoVars, argVars, matcherVars, remoteVars, file, data, page,
                 synced, new, prior, merged, seen, saved, lastSync, tailVars>>
  /\ UNCHANGED invocations

\* The for loop raises on the run after the first k of the page (a record
\* the loop body cannot index, k = 0 for the first): the k runs before it
\* are merged.
MergeRaises ==
  /\ pc = "fetch"
  /\ LET runs == PageOf(feed[Url], page)
     IN \E k \in 0..(Len(runs) - 1) :
          LET st == MergeRuns([data |-> data, synced |-> synced, new |-> new],
                              SubSeq(runs, 1, k), Url)
          IN /\ data' = st.data
             /\ synced' = st.synced
             /\ new' = st.new
             /\ seen' = seen \cup Keys(SubSeq(runs, 1, k))
  /\ exit' = "exception"
  /\ pc' = "finally"
  /\ UNCHANGED <<repoVars, argVars, matcherVars, remoteVars, file, page, prior,
                 merged, saved, lastSync, tailVars>>
  /\ UNCHANGED invocations

\* Mutant of Save: the dump follows the loop without a finally, so an
\* exception skips it.
SaveUnlessRaised ==
  /\ pc = "finally"
  /\ file' = IF exit = "exception" THEN file ELSE data
  /\ saved' = (exit # "exception")
  /\ pc' = IF exit = "exception" THEN "crashed" ELSE "locate"
  /\ UNCHANGED <<repoVars, argVars, matcherVars, remoteVars, syncVars,
                 lastSync, tailVars>>
  /\ UNCHANGED invocations

\* Mutant of Save: the dump is made only once a run has been selected, so
\* workflow_runs returns without writing.
SaveLater ==
  /\ pc = "finally"
  /\ UNCHANGED <<file, saved>>
  /\ pc' = IF exit = "exception" THEN "crashed" ELSE "locate"
  /\ UNCHANGED <<repoVars, argVars, matcherVars, remoteVars, syncVars,
                 lastSync, tailVars>>
  /\ UNCHANGED invocations

\* The finally block: seek(0), truncate, pickle.dump(data); then return data,
\* or let the exception go on to end the process.
Save ==
  /\ pc = "finally"
  /\ file' = data
  /\ saved' = TRUE
  /\ pc' = IF exit = "exception" THEN "crashed" ELSE "locate"
  /\ UNCHANGED <<repoVars, argVars, matcherVars, remoteVars, syncVars,
                 lastSync, tailVars>>
  /\ UNCHANGED invocations

\* ------------------------------------------------------------ run locator
\* The loop of find_workflow_run from entry i on, found being the run
\* remembered so far.
RECURSIVE ScanRuns(_, _, _, _, _)
ScanRuns(prof, runs, wanted, i, fnd) ==
  IF i > Len(runs) THEN fnd
  ELSE LET run == runs[i]
       IN IF \/ run.head_commit \notin wanted
             \/ run._workflow_url # prof.workflow_url
          THEN ScanRuns(prof, runs, wanted, i + 1, fnd)
          ELSE IF run.status # "completed"
          THEN ScanRuns(prof, runs, wanted, i + 1, fnd)
          ELSE IF run.conclusion # "success"
          THEN ScanRuns(prof, runs, wanted, i + 1, fnd)
          ELSE ScanRuns(prof, runs, wanted, i + 1,
                        IF fnd = NoRun THEN run ELSE fnd)

\* Mutant of find_workflow_run: every success overwrites found, so the last
\* one is returned.
RECURSIVE ScanRunsLast(_, _, _, _, _)
ScanRunsLast(prof, runs, wanted, i, fnd) ==
  IF i > Len(runs) THEN fnd
  ELSE LET run == runs[i]
           hit == /\ run.head_commit \in wanted
                  /\ run._workflow_url = prof.workflow_url
                  /\ run.status = "completed"
                  /\ run.conclusion = "success"
       IN ScanRunsLast(prof, runs, wanted, i + 1, IF hit THEN run ELSE fnd)

find_workflow_run_last(prof, runs, wanted) ==
  LET fnd == ScanRunsLast(prof, runs, wanted, 1, NoRun)
  IN [raised |-> fnd = NoRun, run |-> fnd]

\* find_workflow_run: the run returned, or raised = TRUE for the DeployError.
find_workflow_run(prof, runs, wanted) ==
  LET fnd == ScanRuns(prof, runs, wanted, 1, NoRun)
  IN [raised |-> fnd = NoRun, run |-> fnd]

\* deploy: run = find_workflow_run(profile, runs, wanted_commits)
Locate ==
  /\ pc = "locate"
  /\ LET r == find_workflow_run(PROFILES[profile], data, wanted_commits)
     IN IF r.raised
        THEN /\ error' = ErrNoRun
             /\ pc' = "failed"
             /\ found' = found
        ELSE /\ found' = r.run
             /\ pc' = "artifact"
             /\ error' = error
  /\ UNCHANGED <<repoVars, argVars, matcherVars, remoteVars, file, syncVars,
                 saved, lastSync, artifact>>
  /\ UNCHANGED invocations

\* ------------------------------------------------------ artifact resolver
ArtifactRecords ==
  [name : {"lila-assets", "lila-server"}, expired : BOOLEAN,
   archive_download_url : {"zip"}]

\* The artifact listings a run's artifacts_url may answer with: up to
\* MaxArtifacts artifacts of distinct names.
ArtifactLists ==
  UNION {{l \in [1..n -> ArtifactRecords] :
            \A i, j \in 1..n : l[i].name = l[j].name => i = j} :
         n \in 0..MaxArtifacts}

\* artifact_url: the download url of the first artifact of that name
\* (expired or not), or raised = TRUE for the DeployError.
artifact_url(artifacts, name) ==
  LET hits == {i \in 1..Len(artifacts) : artifacts[i].name = name}
  IN IF hits = {} THEN [raised |-> TRUE, url |-> "none"]
     ELSE [raised |-> FALSE,
           url |-> artifacts[CHOOSE i \in hits : \A j \in hits : i <= j]
                     .archive_download_url]

\* deploy: url = artifact_url(session, run, profile["artifact_name"]), on
\* whichever listing the run's artifacts_url answers with.
Artifact ==
  /\ pc = "artifact"
  /\ \E r \in {artifact_url(artifacts, PROFILES[profile].artifact_name) :
                 artifacts \in ArtifactLists} :
       IF r.raised
       THEN /\ error' = ErrNoArtifact
            /\ pc' = "failed"
            /\ artifact' = artifact
       ELSE /\ artifact' = r.url
            /\ pc' = "tmux"
            /\ error' = error
  /\ UNCHANGED <<repoVars, argVars, matcherVars, remoteVars, file, syncVars,
                 saved, lastSync, found>>
  /\ UNCHANGED invocations

\* deploy: return tmux(...)
Tmux ==
  /\ pc = "tmux"
  /\ pc' = "done"
  /\ UNCHANGED <<repoVars, argVars, matcherVars, remoteVars, file, syncVars,
                 saved, lastSync, tailVars>>
  /\ UNCHANGED invocations

\* The process ends: sys.exit after a DeployError, a traceback, or the
\* return of main. Its locals are gone; the cache file stays.
Exit ==
  /\ pc \in {"failed", "crashed", "done"}
  /\ pc' = "idle"
  /\ ResetLocals
  /\ profile' = "none"
  /\ commit' = 0
  /\ lastSync' = IF saved
                 THEN [profile |-> profile,
                       cut |-> exit \in {"http", "exception"}]
                 ELSE lastSync
  /\ UNCHANGED <<repoVars, remoteVars, file>>
  /\ UNCHANGED invocations

\* ------------------------------------------------------------ remote feed
FeedRuns == UNION {RangeOf(feed[u]) : u \in Urls}

ForgetSync(u) ==
  lastSync' = IF lastSync # NoSync /\ PROFILES[lastSync.profile].workflow_url = u
              THEN NoSync ELSE lastSync

\* A workflow run is started for the pushed head: it heads its workflow's
\* feed, which lists runs newest first.
RunStarts ==
  /\ pc = "idle"
  /\ Cardinality(FeedRuns) < MaxRuns
  /\ \E u \in Urls :
       /\ feed' = [feed EXCEPT ![u] =
                     <<[id |-> Cardinality(FeedRuns) + 1,
                        status |-> "in_progress", conclusion |-> "none",
                        head_commit |-> repo.head]>> \o @]
       /\ ForgetSync(u)
  /\ UNCHANGED <<repoVars, pc, argVars, matcherVars, file, syncVars, saved,
                 tailVars>>
  /\ UNCHANGED invocations

\* A run that was in progress completes.
RunCompletes ==
  /\ pc = "idle"
  /\ \E u \in Urls, i \in 1..MaxRuns, concl \in {"success", "failure"} :
       /\ i <= Len(feed[u])
       /\ feed[u][i].status # "completed"
       /\ feed' = [feed EXCEPT ![u][i].status = "completed",
                               ![u][i].conclusion = concl]
       /\ ForgetSync(u)
  /\ UNCHANGED <<repoVars, pc, argVars, matcherVars, file, syncVars, saved,
                 tailVars>>
  /\ UNCHANGED invocations

\* A completed run is re-run under the same id.
RunReruns ==
  /\ pc = "idle"
  /\ \E u \in Urls, i \in 1..MaxRuns :
       /\ i <= Len(feed[u])
       /\ feed[u][i].status = "completed"
       /\ feed' = [feed EXCEPT ![u][i].status = "in_progress",
                               ![u][i].conclusion = "none"]
       /\ ForgetSync(u)
  /\ UNCHANGED <<repoVars, pc, argVars, matcherVars, file, syncVars, saved,
                 tailVars>>
  /\ UNCHANGED invocations

\* ---------------------------------------------------------- specifications
InitProcess ==
  /\ pc = "idle"
  /\ profile = "none"
  /\ commit = 0
  /\ FreshLocals
  /\ lastSync = NoSync
  /\ invocations = 0

\* A clone with no cache file yet and feeds with no run.
Init ==
  /\ repo = ChainRepo
  /\ feed = [u \in Urls |-> <<>>]
  /\ file = <<>>
  /\ InitProcess

Deploy ==
  \/ Invoke
  \/ HashWanted
  \/ Visit
  \/ FindDone
  \/ Load
  \/ FetchMerge
  \/ FetchNon200
  \/ FetchRaises
  \/ MergeRaises
  \/ Save
  \/ Locate
  \/ Artifact
  \/ Tmux
  \/ Exit

\* Runs are immutable once completed.
NextStable ==
  \/ Deploy
  \/ RunStarts
  \/ RunCompletes

Next ==
  \/ NextStable
  \/ RunReruns

Spec == Init /\ [][Next]_vars

\* The commit matcher on every history of the bounds.
InitCommits ==
  /\ repo \in Repos(Commits)
  /\ feed = [u \in Urls |-> <<>>]
  /\ file = <<>>
  /\ InitProcess

NextCommits ==
  \/ Invoke
  \/ HashWanted
  \/ Visit
  \/ FindDone

SpecCommits == InitCommits /\ [][NextCommits]_vars

RunStates ==
  {[status |-> "in_progress", conclusion |-> "none"],
   [status |-> "completed", conclusion |-> "success"],
   [status |-> "completed", conclusion |-> "failure"]}

\* The dicts of up to m runs; the run at place i has id i (the locator
\* reads no id).
Caches(m) ==
  UNION {{[i \in 1..n |->
             [id |-> i, status |-> st[i].status,
              conclusion |-> st[i].conclusion, head_commit |-> hc[i],
              _workflow_url |-> tg[i]]] :
            st \in [1..n -> RunStates], hc \in [1..n -> Commits],
            tg \in [1..n -> Urls]} : n \in 0..m}

\* The run locator on every cache and wanted set of the bounds: deploy is
\* about to call find_workflow_run on the dict workflow_runs returned.
InitLocate ==
  /\ repo = Chain(MaxCommits)
  /\ feed = [u \in Urls |-> <<>>]
  /\ file \in Caches(MaxRuns)
  /\ pc = "locate"
  /\ profile \in ProfileNames
  /\ commit = repo.head
  /\ wanted_hash = NoHash
  /\ stack = <<>>
  /\ yielded = <<>>
  /\ visited = <<>>
  /\ wanted_commits \in SUBSET Commits
  /\ data = file
  /\ page = 1
  /\ synced = FALSE
  /\ new = 0
  /\ exit = "http"
  /\ prior = file
  /\ merged = {}
  /\ seen = {}
  /\ saved = TRUE
  /\ lastSync = NoSync
  /\ invocations = 1
  /\ found = NoRun
  /\ artifact = "none"
  /\ error = "none"

NextLocate ==
  \/ Locate
  \/ Artifact
  \/ Tmux

SpecLocate == InitLocate /\ [][NextLocate]_vars

SpecStable == Init /\ [][NextStable]_vars

\* ================================================================ claims
\* What the claims are stated with, written from their wording and not
\* with the operators the actions use.

\* Every tracked path exists in c's tree and c's per-path hashes equal the
\* wanted tuple element for element in path order.
TupleEqual(c) ==
  LET files == PROFILES[profile].files
      t == TreeObjects[repo.tree[c]]
  IN /\ Len(wanted_hash) = Len(files)
     /\ \A i \in 1..Len(files) :
          files[i] \in DOMAIN t /\ t[files[i]] = wanted_hash[i]

ParentsOf(S) == UNION {RangeOf(repo.parents[c]) : c \in S}

\* The commits reachable from S by parent links.
RECURSIVE ReachableFrom(_)
ReachableFrom(S) ==
  LET nxt == S \cup ParentsOf(S)
  IN IF nxt = S THEN S ELSE ReachableFrom(nxt)

\* The commits joined to S by parent links through commits of S and of the
\* result only, all of them with an equal tuple.
RECURSIVE EqualChainFrom(_)
EqualChainFrom(S) ==
  LET nxt == S \cup {p \in ParentsOf(S) : TupleEqual(p)}
  IN IF nxt = S THEN S ELSE EqualChainFrom(nxt)

EqualChain ==
  EqualChainFrom(IF TupleEqual(repo.head) THEN {repo.head} ELSE {})

\* C1 as claimed: once find_commits has been run from head, a commit
\* reachable from head is in the matched set iff every tracked path exists in
\* its tree and its hash tuple equals the wanted tuple.
C1_AllReachableEqual ==
  pc = "load" =>
    \A c \in ReachableFrom({repo.head}) : c \in wanted_commits <=> TupleEqual(c)

\* C1 as amended: a commit is in the matched set iff a chain of parent links
\* leads from head to it on which every commit, both ends included, has all
\* tracked paths and the wanted tuple.
C1_EqualChainMatched ==
  pc = "load" => \A c \in Commits : c \in wanted_commits <=> c \in EqualChain

\* A matching commit behind a differing one is left out while head is
\* matched.
C1_Witness ==
  /\ pc = "load"
  /\ repo.head \in wanted_commits
  /\ \E c \in ReachableFrom({repo.head}) : TupleEqual(c) /\ c \notin wanted_commits

RECURSIVE CallsMadeBy(_)
\* The recursive calls made by the calls of the sequence that matched: one
\* per parent.
CallsMadeBy(cs) ==
  IF cs = <<>> THEN 0
  ELSE (IF TupleEqual(Head(cs)) THEN Len(repo.parents[Head(cs)]) ELSE 0)
       + CallsMadeBy(Tail(cs))

\* C8: a call on a commit whose tuple differs or that lacks a tracked path
\* yields nothing and calls find_commits on none of its parents: the calls
\* made or pending are the one on head and one per parent of each matching
\* call, a commit is called on only if it is head or a parent of a matching
\* commit called on, and every yielded id is joined to head by matching
\* commits.
C8_Pruning ==
  pc \in {"find", "load"} =>
    /\ Len(visited) + Len(stack) = 1 + CallsMadeBy(visited)
    /\ yielded = SelectSeq(visited, TupleEqual)
    /\ \A c \in RangeOf(visited) \cup RangeOf(stack) :
         \/ c = repo.head
         \/ \E q \in RangeOf(visited) :
              TupleEqual(q) /\ c \in RangeOf(repo.parents[q])
    /\ RangeOf(yielded) \subseteq EqualChain

\* The traversal ended without a call on a matching commit whose only way
\* from head is through a commit that failed the match.
C8_Witness ==
  /\ pc = "load"
  /\ \E q \in RangeOf(visited) :
       /\ ~TupleEqual(q)
       /\ \E c \in RangeOf(repo.parents[q]) :
            TupleEqual(c) /\ c \notin RangeOf(visited)
  /\ Len(yielded) >= 1

\* C10 as claimed: past the missing-file check, the wanted-commit set holds
\* the target commit's id.
C10_TargetIsWanted ==
  pc = "load" => commit \in wanted_commits

\* The four conditions of the locator on a cached run.
Qualifies(run) ==
  /\ run.head_commit \in wanted_commits
  /\ run._workflow_url = PROFILES[profile].workflow_url
  /\ run.status = "completed"
  /\ run.conclusion = "success"

Qualifying(d) == {i \in 1..Len(d) : Qualifies(d[i])}

\* d without the entries at the places of R.
RECURSIVE Without(_, _, _)
Without(d, R, i) ==
  IF i > Len(d) THEN <<>>
  ELSE (IF i \in R THEN <<>> ELSE <<d[i]>>) \o Without(d, R, i + 1)

\* C2: find_workflow_run returns the first run in iteration order whose head
\* commit is wanted, whose tag is the profile's workflow url, whose status is
\* completed and whose conclusion is success; the DeployError is raised
\* exactly when no entry satisfies all four; and taking away any entries that
\* do not satisfy all four changes neither.
C2_FirstSuccess ==
  pc \in {"artifact", "tmux", "done", "failed"} /\ error # ErrMissingFile =>
    LET Q == Qualifying(data)
    IN /\ IF Q = {}
          THEN pc = "failed" /\ error = ErrNoRun /\ found = NoRun
          ELSE /\ found = data[CHOOSE i \in Q : \A j \in Q : i <= j]
               /\ error # ErrNoRun
       /\ \A R \in SUBSET ((1..Len(data)) \ Q) :
            LET r == find_workflow_run(PROFILES[profile],
                                       Without(data, R, 1), wanted_commits)
            IN r.run = found /\ r.raised = (Q = {})

\* The second run of the cache was selected over a first one that is for a
\* wanted commit and this workflow but has not succeeded.
C2_Witness ==
  /\ pc = "artifact"
  /\ Len(data) >= 2
  /\ found = data[2]
  /\ data[1].head_commit \in wanted_commits
  /\ data[1]._workflow_url = PROFILES[profile].workflow_url
  /\ ~Qualifies(data[1])

\* The fetch loop of this invocation has been left and the finally block is
\* over.
SyncOver == exit # "none" /\ pc # "finally"

\* Every run of every page merged in full is in dict d as the page gave it,
\* tagged for this profile's feed.
MergedPagesIn(d) ==
  \A p \in merged :
    LET runs == PageOf(feed[PROFILES[profile].workflow_url], p)
    IN \A i \in 1..Len(runs) :
         \E j \in 1..Len(d) :
           /\ d[j].id = runs[i].id
           /\ d[j].status = runs[i].status
           /\ d[j].conclusion = runs[i].conclusion
           /\ d[j].head_commit = runs[i].head_commit
           /\ d[j]._workflow_url = PROFILES[profile].workflow_url

\* C3: however the fetch loop was left (known completed run, no next link,
\* non-200 response, exception), by the time workflow_runs has returned or the
\* exception has left it the file holds the whole in-memory dict, with every
\* run of every page that was merged in full.
C3_PersistedOnEveryExit ==
  SyncOver => saved /\ file = data /\ MergedPagesIn(file)

\* An exception ended a sync that had merged a page, and the file holds it.
C3_Witness ==
  /\ pc = "crashed"
  /\ exit = "exception"
  /\ merged # {}
  /\ file # prior

\* C4: a non-200 response ends the fetching (pages after it are not
\* fetched), the dict keeps the prior cache and the runs of the pages merged
\* before, and it is returned without an exception; with an empty prior cache
\* and a failing first page the dict returned is empty and the locator fails
\* with the no-matching-run DeployError.
C4_Non200StopsAndKeeps ==
  exit = "http" =>
    /\ pc \notin {"fetch", "crashed"}
    /\ \A p \in merged : p < page
    /\ Keys(prior) \subseteq Keys(data)
    /\ MergedPagesIn(data)
    /\ pc # "finally" => saved /\ file = data
    /\ prior = <<>> /\ page = 1 =>
         /\ data = <<>>
         /\ pc \in {"finally", "locate", "failed"}
         /\ pc = "failed" => error = ErrNoRun

\* The first page failed on an empty cache and the locator raised.
C4_Witness ==
  /\ exit = "http"
  /\ prior = <<>>
  /\ page = 1
  /\ pc = "failed"
  /\ error = ErrNoRun

\* C6 as claimed: every DeployError is raised after workflow_runs has
\* persisted the cache in the same invocation.
C6_EveryErrorAfterPersist ==
  pc = "failed" => saved

\* C6 as amended: the no-matching-run and missing-artifact DeployErrors are
\* raised after workflow_runs has persisted the cache in the same invocation;
\* the missing-file DeployError is raised before workflow_runs is called,
\* with the file untouched.
C6_LaterErrorsAfterPersist ==
  pc = "failed" =>
    IF error = ErrMissingFile
    THEN ~saved /\ exit = "none"
    ELSE error \in {ErrNoRun, ErrNoArtifact} /\ saved /\ file = data

\* The artifact was missing from a run selected out of a cache just written.
C6_Witness ==
  /\ pc = "failed"
  /\ error = ErrNoArtifact
  /\ saved
  /\ file # <<>>

\* C7: a sync removes no run id from the cache: the keys written are a
\* superset of the keys loaded, the dict returned is the whole dict written,
\* and the record of a run id that was on no page processed by this sync is
\* as it was, at its place, feed tag included.
C7_NothingRemoved ==
  /\ Keys(prior) \subseteq Keys(data)
  /\ SyncOver =>
       /\ Keys(prior) \subseteq Keys(file)
       /\ file = data
       /\ \A i \in 1..Len(prior) :
            prior[i].id \notin seen => file[i] = prior[i]

\* A sync that merged runs has left alone a run tagged for the other feed.
C7_Witness ==
  /\ SyncOver
  /\ seen # {}
  /\ \E i \in 1..Len(prior) :
       /\ prior[i].id \notin seen
       /\ prior[i]._workflow_url # PROFILES[profile].workflow_url
       /\ file[i] = prior[i]

\* This invocation follows, with the feed unchanged, a sync of the same
\* profile.
SecondOfTwo == lastSync # NoSync /\ lastSync.profile = profile

\* Page q holds a run the loaded dict records as completed.
KnownCompletedOn(q) ==
  LET runs == PageOf(feed[PROFILES[profile].workflow_url], q)
  IN \E i \in 1..Len(runs) :
       \E j \in 1..Len(prior) :
         prior[j].id = runs[i].id /\ prior[j].status = "completed"

\* No page was merged, or is about to be fetched, that follows a page with a
\* known completed run.
StoppedAtKnown ==
  \A p \in merged \cup (IF pc = "fetch" THEN {page} ELSE {}) :
    \A q \in 1..(p - 1) : ~KnownCompletedOn(q)

C9_EarlyStopSound ==
  exit = "synced" =>
    \A p \in page..Len(feed[PROFILES[profile].workflow_url]) :
      LET runs == PageOf(feed[PROFILES[profile].workflow_url], p)
      IN \A i \in 1..Len(runs) : runs[i].id \in Keys(data)

====
